---------------------------- MODULE Spec2Model ----------------------------
(***************************************************************************)
(* Model of niftypet/ninst/raw/resources.py: the isotope table riLUT, the  *)
(* base setup get_setup / get_gpu_constants and the four scanner builders  *)
(* get_sig_constants, get_synchropet_constants, get_inv_constants and      *)
(* get_mmr_constants.                                                      *)
(*                                                                         *)
(* Python objects live in a heap: every dictionary and every list has an   *)
(* identity, a dictionary stores references to its lists, and a caller who *)
(* holds a returned dictionary can change it and the lists it refers to.   *)
(* A builder runs one merge step (one Cnt.update of the source) at a time, *)
(* so calls interleave at that granularity.                                *)
(*                                                                         *)
(* Numbers.  Python ints are TLA+ integers.  A Python float is modelled by *)
(* the exact rational it denotes, in the canonical form n/d * 10^e with d  *)
(* coprime to 10 and n not a multiple of 10, times pi^p (p = 1 for the     *)
(* multiples of math.pi).  Values whose digits do not fit a 32-bit integer *)
(* are kept as limb sequences (base 10^4, least significant limb first).   *)
(***************************************************************************)
EXTENDS Integers, Sequences, FiniteSets, TLC

(***************************************************************************)
(* Exact arithmetic on the values of Python floats.                        *)
(***************************************************************************)
Abs(x) == IF x < 0 THEN -x ELSE x

Sign(x) == IF x < 0 THEN -1 ELSE 1

RECURSIVE Gcd(_, _)
Gcd(a, b) == IF b = 0 THEN a ELSE Gcd(b, a % b)

RECURSIVE Pow10(_)
Pow10(k) == IF k <= 0 THEN 1 ELSE 10 * Pow10(k - 1)

\* moves the factors 2 and 5 of d, and the factors 10 of n, into the exponent
RECURSIVE NormR(_, _, _, _)
NormR(n, d, e, p) ==
  IF d % 2 = 0 THEN NormR(n * 5, d \div 2, e - 1, p)
  ELSE IF d % 5 = 0 THEN NormR(n * 2, d \div 5, e - 1, p)
  ELSE IF n % 10 = 0 THEN NormR(n \div 10, d, e + 1, p)
  ELSE [n |-> n, d |-> d, e |-> e, p |-> p]

\* the number n/d * 10^e * pi^p in canonical form (d > 0)
Norm(n, d, e, p) ==
  IF n = 0 THEN [n |-> 0, d |-> 1, e |-> 0, p |-> 0]
  ELSE LET g == Gcd(Abs(n), d) IN NormR(n \div g, d \div g, e, p)

\* a decimal literal: n * 10^e
Dec(n, e) == Norm(n, 1, e, 0)

\* an int used in float arithmetic
FromInt(i) == Norm(i, 1, 0, 0)

Neg(a) == [a EXCEPT !.n = -a.n]

Add(a, b) ==
  IF a.n = 0 THEN b
  ELSE IF b.n = 0 THEN a
  ELSE LET e  == IF a.e < b.e THEN a.e ELSE b.e
           na == a.n * Pow10(a.e - e)
           nb == b.n * Pow10(b.e - e)
           g  == Gcd(a.d, b.d)
       IN Norm(na * (b.d \div g) + nb * (a.d \div g), (a.d \div g) * b.d, e, a.p)

Sub(a, b) == Add(a, Neg(b))

\* an * bn / d * 10^e * pi^p, the factors 10 of the product moved into the exponent
\* before the numerators are multiplied
RECURSIVE MulR(_, _, _, _, _)
MulR(an, bn, d, e, p) ==
  IF an % 2 = 0 /\ bn % 5 = 0 THEN MulR(an \div 2, bn \div 5, d, e + 1, p)
  ELSE IF an % 5 = 0 /\ bn % 2 = 0 THEN MulR(an \div 5, bn \div 2, d, e + 1, p)
  ELSE Norm(an * bn, d, e, p)

Mul(a, b) ==
  IF a.n = 0 \/ b.n = 0 THEN Norm(0, 1, 0, 0)
  ELSE LET g1 == Gcd(Abs(a.n), b.d)
           g2 == Gcd(Abs(b.n), a.d)
       IN MulR(a.n \div g1, b.n \div g2, (a.d \div g2) * (b.d \div g1),
               a.e + b.e, a.p + b.p)

\* x ** -1 and 1 / x
Inv(a) == Norm(Sign(a.n) * a.d, Abs(a.n), -a.e, -a.p)

Div(a, b) == Mul(a, Inv(b))

Sq(a) == Mul(a, a)

IsPos(a) == a.n > 0

\* a <= b for numbers without a pi factor
Leq(a, b) == Sub(b, a).n >= 0

\* math.pi, to the digits that the roundings of the source can see
PiApprox == [n |-> 3141593, d |-> 1, e |-> -6, p |-> 0]

\* math.pi as a factor
Pi == [n |-> 1, d |-> 1, e |-> 0, p |-> 1]

\* the value of a multiple of pi as a plain number
Numeric(a) == IF a.p = 0 THEN a ELSE Mul([a EXCEPT !.p = 0], PiApprox)

\* long division: <<floor(n * 10^s / d), remainder>> for n >= 0, d > 0, s >= 0
RECURSIVE LongDiv(_, _, _, _)
LongDiv(q, r, d, s) ==
  IF s = 0 THEN <<q, r>>
  ELSE LongDiv(q * 10 + (r * 10) \div d, (r * 10) % d, d, s - 1)

\* <<floor(|a| * 10^k), remainder, divisor>> of a plain number a
Scaled(a, k) ==
  LET s   == a.e + k
      den == IF s >= 0 THEN a.d ELSE a.d * Pow10(-s)
      n   == Abs(a.n)
      qr  == LongDiv(n \div den, n % den, den, IF s >= 0 THEN s ELSE 0)
  IN <<qr[1], qr[2], den>>

\* round(x, k): to k decimals, ties to even
Round(x, k) ==
  LET a  == Numeric(x)
      t  == Scaled(a, k)
      up == \/ 2 * t[2] > t[3]
            \/ (2 * t[2] = t[3] /\ t[1] % 2 = 1)
  IN Norm(Sign(a.n) * (IF up THEN t[1] + 1 ELSE t[1]), 1, -k, 0)

\* "{0:.5f}" where the code has "{0:.6f}"
Format6_five(x) == Round(x, 5)

\* float("{0:.6f}".format(x)): x printed with 6 decimals and parsed back
Format6(x) == Round(x, 6)

\* math.ceil(x), an int
Ceil(x) ==
  LET den == IF x.e >= 0 THEN x.d ELSE x.d * Pow10(-x.e)
      num == IF x.e >= 0 THEN x.n * Pow10(x.e) ELSE x.n
  IN -((-num) \div den)

RECURSIVE IsqrtR(_, _, _)
IsqrtR(lo, hi, q) ==
  IF lo >= hi THEN lo
  ELSE LET mid == (lo + hi + 1) \div 2
       IN IF mid * mid <= q THEN IsqrtR(mid, hi, q) ELSE IsqrtR(lo, mid - 1, q)

\* floor(sqrt(q)) for 0 <= q < 2^31
Isqrt(q) == IsqrtR(0, IF q < 46340 THEN q ELSE 46340, q)

\* round(x ** .5, k) for x >= 0
SqrtRound(x, k) ==
  LET t  == Scaled(x, 2 * k)
      s  == Isqrt(t[1])
      up == \/ t[1] > s * s + s
            \/ (t[1] = s * s + s /\ 4 * t[2] >= t[3])
  IN Norm(IF up THEN s + 1 ELSE s, 1, -k, 0)

\* one step of the square root by pairs of digits: the root p and remainder c of the
\* digits read so far, extended by the next pair of digits
SqrtPair(pc, pair) ==
  LET p == pc[1]
      c == pc[2] * 100 + pair
      d == CHOOSE x \in 0..9 : /\ (20 * p + x) * x <= c
                                /\ (x = 9 \/ (20 * p + x + 1) * (x + 1) > c)
  IN <<10 * p + d, c - (20 * p + d) * d>>

\* <<floor(sqrt(n)), n - floor(sqrt(n))^2>>, the pairs of digits of n read from the top
RECURSIVE SqrtInt(_)
SqrtInt(n) == IF n = 0 THEN <<0, 0>> ELSE SqrtPair(SqrtInt(n \div 100), n % 100)

\* the root and remainder of n * 100^z
RECURSIVE SqrtZeros(_, _)
SqrtZeros(pc, z) == IF z = 0 THEN pc ELSE SqrtZeros(SqrtPair(pc, 0), z - 1)

\* round(x ** .5, k) for a decimal x > 0 with at most 2k decimals, digit by digit:
\* with N = x * 10^2k, s = floor(sqrt(N)) and c = N - s^2, the root is nearer to
\* s + 1 exactly when c > s
SqrtRoundLong(x, k) ==
  LET z  == 2 * k + x.e
      n  == IF z % 2 = 0 THEN x.n ELSE x.n * 10
      pc == SqrtZeros(SqrtInt(n), z \div 2)
  IN Dec(IF pc[2] > pc[1] THEN pc[1] + 1 ELSE pc[1], -k)

(***************************************************************************)
(* Wide values: mantissa as limbs of base 10^4, value = limbs * 10^e.      *)
(***************************************************************************)
Limb == Pow10(4)

RECURSIVE Limbs(_)
Limbs(n) == IF n < Limb THEN <<n>> ELSE <<n % Limb>> \o Limbs(n \div Limb)

RECURSIVE LimbsMulInt(_, _, _)
LimbsMulInt(w, k, carry) ==
  IF w = <<>> THEN (IF carry = 0 THEN <<>> ELSE Limbs(carry))
  ELSE LET t == w[1] * k + carry
       IN <<t % Limb>> \o LimbsMulInt(Tail(w), k, t \div Limb)

\* the limbs divided by 10 (the value is a multiple of 10)
RECURSIVE LimbsDiv10(_)
LimbsDiv10(w) ==
  IF Len(w) = 1 THEN <<w[1] \div 10>>
  ELSE LET rest == LimbsDiv10(Tail(w))
           top  == <<w[1] \div 10 + (w[2] % 10) * (Limb \div 10)>>
       IN IF Len(w) = 2 /\ rest = <<0>> THEN top ELSE top \o rest

RECURSIVE WNorm(_, _)
WNorm(w, e) ==
  IF w # <<0>> /\ w[1] % 10 = 0 THEN WNorm(LimbsDiv10(w), e + 1)
  ELSE [w |-> w, e |-> e]

\* the wide decimal n * 10^e (0 <= n < 2^31)
WDec(n, e) == WNorm(Limbs(n), e)

\* a wide decimal times an int 0 < k < 10^5
WMulInt(a, k) == WNorm(LimbsMulInt(a.w, k, 0), a.e)

\* the product of two plain decimals (d = 1, n > 0, one mantissa < 10^5)
WMul(a, b) ==
  IF a.n < 100000 THEN WMulInt(WDec(b.n, a.e + b.e), a.n)
  ELSE WMulInt(WDec(a.n, a.e + b.e), b.n)

WIsPos(a) == \E i \in 1..Len(a.w) : a.w[i] > 0

\* the reciprocal of a wide decimal, kept as the fraction 10^-e / limbs
WInv(a) == [num |-> 1, den |-> a.w, e |-> -a.e]

(***************************************************************************)
(* The heap and the module-level state.                                    *)
(***************************************************************************)
VARIABLES
  heap,     \* [d: dictionary id -> (key -> value), l: list reference -> elements,
            \*  w: dictionary id -> the keys written more than once]
  globals,  \* the module globals that globals().get(k) consults: name -> <<>> (None) or <<value>>
  riLUT,    \* the radioisotope look-up table
  th        \* the client threads: the call each one runs and the object it holds

vars == <<heap, globals, riLUT, th>>

\* None: no argument, no value.  A value that may be None is Nil or <<value>>
Nil == <<>>

Empty == [k \in {} |-> Nil]

\* the keys whose value is a list (or array) object: the dictionary holds a reference
ListKeys == {"SEG", "MNRD", "MXRD", "HMULIST", "TRGTSCT", "AFFINE", "IMSIZE",
             "SCTSCLEM", "SCTSCLMU", "SIRNG"}

\* every literal of one key being one object that all the calls share
Ref_shared(id, key) == <<0, key>>

\* the identity of the list object that the dictionary id stores under key: every
\* list or array literal a call evaluates is an object of its own
Ref(id, key) == <<id, key>>

\* the module-level list hrdwr_mu_mmr
ModRef == <<0, "hrdwr_mu_mmr">>

\* hardware mu-maps of the mMR
hrdwr_mu_mmr == <<"umap_HNMCL_10606489.v.hdr", "umap_HNMCU_10606489.v.hdr",
                  "umap_SPMC_10606491.v.hdr", "umap_PT_2291734.v.hdr">>

\* the heap as the module leaves it after import
InitHeap == [d |-> [i \in {} |-> Empty], l |-> (ModRef :> hrdwr_mu_mmr),
             w |-> [i \in {} |-> {}]]

\* the dictionary with identity id (empty when there is none yet)
Get(H, id) == IF id \in DOMAIN H.d THEN H.d[id] ELSE Empty

\* the keys of the dictionary id that have been written more than once (history)
Rewritten(H, id) == IF id \in DOMAIN H.w THEN H.w[id] ELSE {}

\* Cnt.update(kv) / Cnt[k] = v on the dictionary id
Put(H, id, kv) ==
  [H EXCEPT !.d = (id :> (kv @@ Get(H, id))) @@ H.d,
            !.w = (id :> (Rewritten(H, id) \cup (DOMAIN kv \cap DOMAIN Get(H, id)))) @@ H.w]

\* a new list object
NewList(H, ref, elems) == [H EXCEPT !.l = (ref :> elems) @@ H.l]

\* numpy.array(x), or the fallback array(x) == x: the literal's own new object
array(H, ref, elems) == NewList(H, ref, elems)

\* a dictionary with every reference replaced by the elements of its list
Resolve(H, id) ==
  LET C == Get(H, id)
  IN [k \in DOMAIN C |-> IF k \in ListKeys THEN H.l[C[k]] ELSE C[k]]

\* the same key set and equal values for every key
SameRecord(a, b) == DOMAIN a = DOMAIN b /\ \A k \in DOMAIN a : a[k] = b[k]

\* globals().get(k)
GlobalsGet(G, k) == IF k \in DOMAIN G THEN G[k] ELSE Nil

LOG == 20

DIRTOOLS == "NiftyPET_tools"

MSVC_VRSN == "Visual Studio 12 2013 Win64"

CMAKE_TLS_PAR == ""

ENBLAGG == FALSE

ENBLXNAT == FALSE

\* the module globals as shipped, and as the installer may have completed them
ShippedGlobals == ("VINCIPATH" :> <<"">>) @@ ("REFPATH" :> <<"">>)

InstalledGlobals ==
  ("DEV_ID" :> <<0>>) @@ ("CC_ARCH" :> <<"61">>) @@ ("PATHTOOLS" :> <<"/opt/NiftyPET_tools">>)
  @@ ("RESPATH" :> <<"/opt/NiftyPET_tools/niftyreg/bin/reg_resample">>)
  @@ ("HMUDIR" :> Nil) @@ ShippedGlobals

NoGpuGlobals == ("DEV_ID" :> Nil) @@ ("CC_ARCH" :> <<"">>) @@ ShippedGlobals

ModuleConfigs == {ShippedGlobals, InstalledGlobals, NoGpuGlobals}

(***************************************************************************)
(* get_gpu_constants and get_setup.                                        *)
(***************************************************************************)
\* the key stored under the name of the global, the underscore kept
GpuKey_raw(k) == k

\* k.replace("_", "") for the two keys of get_gpu_constants
GpuKey(k) == IF k = "DEV_ID" THEN "DEVID" ELSE "CCARCH"

\* for k in keys: val = globals().get(k); if val is not None: Cnt[name(k)] = val
RECURSIVE CopyGlobals(_, _, _, _)
CopyGlobals(H, id, G, keys) ==
  IF keys = <<>> THEN H
  ELSE LET k   == Head(keys).k
           val == GlobalsGet(G, k)
           H1  == IF val # Nil THEN Put(H, id, Head(keys).as :> val[1]) ELSE H
       IN CopyGlobals(H1, id, G, Tail(keys))

get_gpu_constants(H, id, G) ==
  CopyGlobals(H, id, G, <<[k |-> "DEV_ID", as |-> GpuKey("DEV_ID")],
                          [k |-> "CC_ARCH", as |-> GpuKey("CC_ARCH")]>>)

\* the object get_setup works on: the argument, or a new empty dictionary of the call
get_setup_Cnt(t, arg) ==
  IF arg = Nil THEN [id |-> t, fresh |-> TRUE] ELSE [id |-> arg[1], fresh |-> FALSE]

\* get_setup, lines 83-110: the baseline keys
get_setup_baseline(H, id) ==
  Put(H, id,
      ("LOG" :> LOG) @@ ("VERBOSE" :> FALSE) @@ ("ENBLXNAT" :> ENBLXNAT)
      @@ ("ENBLAGG" :> ENBLAGG) @@ ("CMPL_DCM2NIIX" :> FALSE)
      @@ ("R02" :> [w |-> <<5884, 4982, 7874, 7940>>, e |-> -41])
      @@ ("CLGHT" :> Dec(299792458, 2))
      @@ ("DIRTOOLS" :> DIRTOOLS) @@ ("CMAKE_TLS_PAR" :> CMAKE_TLS_PAR)
      @@ ("MSVC_VRSN" :> MSVC_VRSN))

\* get_setup, lines 115-126: the paths
get_setup_paths(H, id, G) ==
  CopyGlobals(H, id, G, <<[k |-> "PATHTOOLS", as |-> "PATHTOOLS"],
                          [k |-> "RESPATH", as |-> "RESPATH"],
                          [k |-> "REGPATH", as |-> "REGPATH"],
                          [k |-> "DCM2NIIX", as |-> "DCM2NIIX"],
                          [k |-> "HMUDIR", as |-> "HMUDIR"],
                          [k |-> "VINCIPATH", as |-> "VINCIPATH"],
                          [k |-> "REFPATH", as |-> "REFPATH"]>>)

(***************************************************************************)
(* The merge steps shared by the builders.                                 *)
(***************************************************************************)
\* the Z translation with the sign of the X translation
AffineRows_posZ(C) ==
  LET z == Dec(0, 0)
  IN << <<Mul(FromInt(-10), C["SO_VXX"]), z, z,
          Mul(Mul(Dec(50, -1), FromInt(C["SO_IMX"])), C["SO_VXX"])>>,
        <<z, Mul(FromInt(10), C["SO_VXX"]), z,
          Mul(Mul(Dec(-50, -1), FromInt(C["SO_IMY"])), C["SO_VXX"])>>,
        <<z, z, Mul(FromInt(10), C["SO_VXZ"]),
          Mul(Mul(Dec(50, -1), FromInt(C["SO_IMZ"])), C["SO_VXZ"])>>,
        <<z, z, z, Dec(10, -1)>> >>

\* the AFFINE literal and IMSIZE of a builder, with SZ_VOXZi (the last Cnt.update
\* before the scatter constants)
AffineRows(C) ==
  LET z == Dec(0, 0)
  IN << <<Mul(FromInt(-10), C["SO_VXX"]), z, z,
          Mul(Mul(Dec(50, -1), FromInt(C["SO_IMX"])), C["SO_VXX"])>>,
        <<z, Mul(FromInt(10), C["SO_VXX"]), z,
          Mul(Mul(Dec(-50, -1), FromInt(C["SO_IMY"])), C["SO_VXX"])>>,
        <<z, z, Mul(FromInt(10), C["SO_VXZ"]),
          Mul(Mul(Dec(-50, -1), FromInt(C["SO_IMZ"])), C["SO_VXZ"])>>,
        <<z, z, z, Dec(10, -1)>> >>

\* IMSIZE in X, Y, Z order
affine_update_xyz(H, id) ==
  LET C  == Get(H, id)
      H1 == array(H, Ref(id, "AFFINE"), AffineRows(C))
      H2 == array(H1, Ref(id, "IMSIZE"), <<C["SO_IMX"], C["SO_IMY"], C["SO_IMZ"]>>)
  IN Put(H2, id,
         ("SIGMA_RM" :> 0) @@ ("RSZ_PSF_KRNL" :> 8)
         @@ ("AFFINE" :> Ref(id, "AFFINE")) @@ ("IMSIZE" :> Ref(id, "IMSIZE"))
         @@ ("SZ_VOXZi" :> Round(Div(FromInt(1), C["SZ_VOXZ"]), 6)))

affine_update(H, id) ==
  LET C  == Get(H, id)
      H1 == array(H, Ref(id, "AFFINE"), AffineRows(C))
      H2 == array(H1, Ref(id, "IMSIZE"), <<C["SO_IMZ"], C["SO_IMY"], C["SO_IMX"]>>)
  IN Put(H2, id,
         ("SIGMA_RM" :> 0) @@ ("RSZ_PSF_KRNL" :> 8)
         @@ ("AFFINE" :> Ref(id, "AFFINE")) @@ ("IMSIZE" :> Ref(id, "IMSIZE"))
         @@ ("SZ_VOXZi" :> Round(Div(FromInt(1), C["SZ_VOXZ"]), 6)))

\* R_RING without the depth of interaction
RingKV_noDOI(C) ==
  ("R_RING" :> C["R"])
  @@ ("R_2" :> Format6(Sq(Add(C["R"], C["DOI"]))))
  @@ ("IR_RING" :> Format6(Inv(Add(C["R"], C["DOI"]))))

\* R_RING, R_2 and IR_RING as every builder writes them
RingKV(C) ==
  ("R_RING" :> Add(C["R"], C["DOI"]))
  @@ ("R_2" :> Format6(Sq(Add(C["R"], C["DOI"]))))
  @@ ("IR_RING" :> Format6(Inv(Add(C["R"], C["DOI"]))))

\* GPU/device image dimensions copied from the reference image (Signa, Inveon)
devgrid_update(H, id) ==
  LET C == Get(H, id)
  IN Put(H, id,
         ("SZ_IMZ" :> C["SO_IMZ"]) @@ ("SZ_IMY" :> C["SO_IMY"]) @@ ("SZ_IMX" :> C["SO_IMX"])
         @@ ("SZ_VOXY" :> C["SO_VXY"]) @@ ("SZ_VOXZ" :> C["SO_VXZ"]))

\* TRGTSCT = [0.5, 0.33]
TRGTSCT == <<Dec(5, -1), Dec(33, -2)>>

(***************************************************************************)
(* get_sig_constants                                                       *)
(***************************************************************************)
sig_hardware(H, id) ==
  Put(H, id,
      ("ISOTOPE" :> "F18") @@ ("DCYCRR" :> TRUE) @@ ("BTP" :> 0) @@ ("BTPRT" :> Dec(10, -1))
      @@ ("BPE" :> 6) @@ ("LMOFF" :> 0)
      @@ ("ALPHA" :> Div(Mul(Dec(714286, -6), Pi), FromInt(180)))
      @@ ("NRNG" :> 45) @@ ("NCRS" :> 448) @@ ("NSEG0" :> 89)
      @@ ("R" :> Dec(3118, -2)) @@ ("CWND" :> Dec(585938, -14)) @@ ("DOI" :> Dec(85, -2)))

sig_sinogram(H, id) ==
  LET C == Get(H, id)
  IN Put(H, id,
         ("NSANGLES" :> 224) @@ ("NSBINS" :> 357) @@ ("NAW" :> -1) @@ ("NSN" :> 1981)
         @@ ("NSN1" :> C["NRNG"] * C["NRNG"]) @@ ("MRD" :> 44) @@ ("SPN" :> 1)
         @@ ("TFOV2" :> Dec(8900, -1)) @@ ("RNG_STRT" :> 0) @@ ("RNG_END" :> C["NRNG"])
         @@ RingKV(C) @@ ("NTT" :> 10) @@ ("NTV" :> 1807))

sig_voxel(H, id) ==
  LET zoom == 1
      H1   == NewList(H, Ref(id, "TRGTSCT"), TRGTSCT)
  IN Put(H1, id,
         ("zoom" :> zoom) @@ ("SO_IMZ" :> 89 * zoom) @@ ("SO_IMY" :> 288 * zoom)
         @@ ("SO_IMX" :> 288 * zoom)
         @@ ("SO_VXX" :> Div(Dec(208333, -6), FromInt(zoom)))
         @@ ("SO_VXY" :> Div(Dec(208333, -6), FromInt(zoom)))
         @@ ("SO_VXZ" :> Div(Dec(278000, -6), FromInt(zoom)))
         @@ ("TRGTSCT" :> Ref(id, "TRGTSCT")))

(***************************************************************************)
(* get_synchropet_constants                                                *)
(***************************************************************************)
syn_hardware(H, id) ==
  Put(H, id,
      ("BPE" :> 6) @@ ("BLKWDTH" :> Dec(957, -3)) @@ ("BLKHGHT" :> Dec(1846, -3))
      @@ ("LC2C" :> Dec(4669, -3)) @@ ("DOI" :> Dec(20, -2)) @@ ("NRNG" :> 8)
      @@ ("NTXBLK" :> 12) @@ ("NAXBLK" :> 1) @@ ("NCRSBLK" :> 4)
      @@ ("NSANGLES" :> 24) @@ ("NSBINS" :> 40) @@ ("SPN" :> 1))

syn_derived(H, id) ==
  LET C == Get(H, id)
  IN Put(H, id,
         ("ALPHA" :> Div(Mul(FromInt(2), Pi), FromInt(C["NTXBLK"])))
         @@ ("NCRS" :> C["NTXBLK"] * C["NCRSBLK"])
         @@ ("R" :> SqrtRound(Sub(Sq(Div(C["LC2C"], FromInt(2))),
                                  Sq(Div(C["BLKWDTH"], FromInt(2)))), 3))
         @@ ("AXR" :> Div(C["BLKHGHT"], FromInt(C["NRNG"])))
         @@ ("NSEG0" :> C["NRNG"] * 2 - 1)
         @@ ("NSN1" :> C["NRNG"] * C["NRNG"])
         @@ ("RNG_STRT" :> 0) @@ ("RNG_END" :> C["NRNG"]))

syn_sinogram(H, id) ==
  LET C == Get(H, id)
  IN Put(H, id,
         ("NAW" :> C["NSBINS"] * C["NSANGLES"]) @@ ("TFOV2" :> Dec(441, -2))
         @@ RingKV(C) @@ ("NTT" :> 10) @@ ("NTV" :> 1807))

syn_voxel(H, id) ==
  LET H1 == NewList(H, Ref(id, "TRGTSCT"), TRGTSCT)
  IN Put(H1, id,
         ("SO_IMZ" :> 15) @@ ("SO_IMY" :> 48) @@ ("SO_IMX" :> 48)
         @@ ("SO_VXX" :> Dec(1, -1)) @@ ("SO_VXY" :> Dec(1, -1)) @@ ("SO_VXZ" :> Dec(11, -2))
         @@ ("SZ_IMZ" :> 15) @@ ("SZ_IMY" :> 48) @@ ("SZ_IMX" :> 48)
         @@ ("SZ_VOXY" :> Dec(1, -1)) @@ ("SZ_VOXZ" :> Dec(11, -2))
         @@ ("TRGTSCT" :> Ref(id, "TRGTSCT")))

(***************************************************************************)
(* get_inv_constants                                                       *)
(***************************************************************************)
inv_hardware(H, id) ==
  Put(H, id,
      ("ISOTOPE" :> "F18") @@ ("DCYCRR" :> TRUE) @@ ("BTP" :> 0) @@ ("BTPRT" :> Dec(10, -1))
      @@ ("BPE" :> 6) @@ ("LMOFF" :> 0) @@ ("NTXBLK" :> 16) @@ ("NCRSBLK" :> 20)
      @@ ("BLKWDTH" :> Mul(Dec(163, -3), FromInt(20)))
      @@ ("NRNG" :> 80) @@ ("NCRS" :> 320) @@ ("NCRSR" :> Nil) @@ ("NBCKT" :> 224)
      @@ ("NSEG0" :> 159) @@ ("TGAP" :> Nil) @@ ("OFFGAP" :> Nil)
      @@ ("AXR" :> Dec(1592, -4)) @@ ("R" :> Dec(8054, -3))
      @@ ("CWND" :> Dec(585938, -14)) @@ ("DOI" :> Dec(458, -3)))

\* RNG_END as the index of the last ring where the code has the ring count
inv_sinogram_lastring(H, id) ==
  LET C == Get(H, id)
  IN Put(H, id,
         ("ALPHA" :> Round(Div(Mul(FromInt(2), Pi), FromInt(C["NTXBLK"])), 4))
         @@ ("NSANGLES" :> 160) @@ ("NSBINS" :> 128) @@ ("NAW" :> -1)
         @@ ("NSN3" :> 4319) @@ ("NSN1" :> 6400) @@ ("MRD" :> 79) @@ ("SPN" :> 1)
         @@ ("TFOV2" :> Dec(5625, -2)) @@ ("RNG_STRT" :> 0) @@ ("RNG_END" :> C["NRNG"] - 1)
         @@ RingKV(C) @@ ("NTT" :> 10) @@ ("NTV" :> 1807))

inv_sinogram(H, id) ==
  LET C == Get(H, id)
  IN Put(H, id,
         ("ALPHA" :> Round(Div(Mul(FromInt(2), Pi), FromInt(C["NTXBLK"])), 4))
         @@ ("NSANGLES" :> 160) @@ ("NSBINS" :> 128) @@ ("NAW" :> -1)
         @@ ("NSN3" :> 4319) @@ ("NSN1" :> 6400) @@ ("MRD" :> 79) @@ ("SPN" :> 1)
         @@ ("TFOV2" :> Dec(5625, -2)) @@ ("RNG_STRT" :> 0) @@ ("RNG_END" :> C["NRNG"])
         @@ RingKV(C) @@ ("NTT" :> 10) @@ ("NTV" :> 1807))

inv_voxel(H, id) ==
  LET zoom == 1
      H1   == NewList(H, Ref(id, "TRGTSCT"), TRGTSCT)
  IN Put(H1, id,
         ("zoom" :> zoom) @@ ("SO_IMZ" :> 159 * zoom) @@ ("SO_IMY" :> 224 * zoom)
         @@ ("SO_IMX" :> 224 * zoom)
         @@ ("SO_VXX" :> Div(Dec(765, -4), FromInt(zoom)))
         @@ ("SO_VXY" :> Div(Dec(765, -4), FromInt(zoom)))
         @@ ("SO_VXZ" :> Div(Dec(796, -4), FromInt(zoom)))
         @@ ("TRGTSCT" :> Ref(id, "TRGTSCT")))

(***************************************************************************)
(* get_mmr_constants                                                       *)
(***************************************************************************)
\* SEG kept as one module-level array, as HMULIST is kept as one module-level list
mmr_hardware_moduleSEG(H, id) ==
  LET H1 == IF Ref(0, "SEG") \in DOMAIN H.l THEN H
            ELSE array(H, Ref(0, "SEG"), <<127, 115, 115, 93, 93, 71, 71, 49, 49, 27, 27>>)
      H2 == array(H1, Ref(id, "MNRD"), <<-5, -16, 6, -27, 17, -38, 28, -49, 39, -60, 50>>)
      H3 == array(H2, Ref(id, "MXRD"), <<5, -6, 16, -17, 27, -28, 38, -39, 49, -50, 60>>)
  IN Put(H3, id,
         ("ISOTOPE" :> "F18") @@ ("DCYCRR" :> TRUE) @@ ("BTP" :> 0) @@ ("BTPRT" :> Dec(10, -1))
         @@ ("BPE" :> 4) @@ ("LMOFF" :> 0)
         @@ ("ALPHA" :> Div(Mul(Dec(714286, -6), Pi), FromInt(180)))
         @@ ("NRNG" :> 64) @@ ("NCRS" :> 504) @@ ("NCRSR" :> <<448>>) @@ ("NBCKT" :> 224)
         @@ ("NSEG0" :> 127) @@ ("TGAP" :> <<9>>) @@ ("OFFGAP" :> <<1>>)
         @@ ("AXR" :> Dec(40625, -5)) @@ ("R" :> Dec(328, -1))
         @@ ("CWND" :> Dec(585938, -14)) @@ ("DOI" :> Dec(67, -2))
         @@ ("SEG" :> Ref(0, "SEG")) @@ ("MNRD" :> Ref(id, "MNRD"))
         @@ ("MXRD" :> Ref(id, "MXRD"))
         @@ ("HMULIST" :> ModRef))

mmr_hardware(H, id) ==
  LET H1 == array(H, Ref(id, "SEG"), <<127, 115, 115, 93, 93, 71, 71, 49, 49, 27, 27>>)
      H2 == array(H1, Ref(id, "MNRD"), <<-5, -16, 6, -27, 17, -38, 28, -49, 39, -60, 50>>)
      H3 == array(H2, Ref(id, "MXRD"), <<5, -6, 16, -17, 27, -28, 38, -39, 49, -50, 60>>)
  IN Put(H3, id,
         ("ISOTOPE" :> "F18") @@ ("DCYCRR" :> TRUE) @@ ("BTP" :> 0) @@ ("BTPRT" :> Dec(10, -1))
         @@ ("BPE" :> 4) @@ ("LMOFF" :> 0)
         @@ ("ALPHA" :> Div(Mul(Dec(714286, -6), Pi), FromInt(180)))
         @@ ("NRNG" :> 64) @@ ("NCRS" :> 504) @@ ("NCRSR" :> <<448>>) @@ ("NBCKT" :> 224)
         @@ ("NSEG0" :> 127) @@ ("TGAP" :> <<9>>) @@ ("OFFGAP" :> <<1>>)
         @@ ("AXR" :> Dec(40625, -5)) @@ ("R" :> Dec(328, -1))
         @@ ("CWND" :> Dec(585938, -14)) @@ ("DOI" :> Dec(67, -2))
         @@ ("SEG" :> Ref(id, "SEG")) @@ ("MNRD" :> Ref(id, "MNRD"))
         @@ ("MXRD" :> Ref(id, "MXRD"))
         \* "HMULIST": hrdwr_mu_mmr stores the module-level list itself
         @@ ("HMULIST" :> ModRef))

\* NRNG * 2 where the code has NRNG ** 2
mmr_sinogram_times(H, id) ==
  LET C == Get(H, id)
  IN Put(H, id,
         ("NSANGLES" :> 252) @@ ("NSBINS" :> 344) @@ ("Naw" :> -1) @@ ("NSN11" :> 837)
         @@ ("NSN1" :> 4084) @@ ("NSN64" :> C["NRNG"] * 2) @@ ("MRD" :> 60)
         @@ ("SPN" :> 11) @@ ("TFOV2" :> Dec(8900, -1)) @@ ("RNG_STRT" :> 0)
         @@ ("RNG_END" :> C["NRNG"]) @@ RingKV(C) @@ ("NTT" :> 10) @@ ("NTV" :> 1807))

mmr_sinogram(H, id) ==
  LET C == Get(H, id)
  IN Put(H, id,
         ("NSANGLES" :> 252) @@ ("NSBINS" :> 344) @@ ("Naw" :> -1) @@ ("NSN11" :> 837)
         @@ ("NSN1" :> 4084) @@ ("NSN64" :> C["NRNG"] * C["NRNG"]) @@ ("MRD" :> 60)
         @@ ("SPN" :> 11) @@ ("TFOV2" :> Dec(8900, -1)) @@ ("RNG_STRT" :> 0)
         @@ ("RNG_END" :> C["NRNG"]) @@ RingKV(C) @@ ("NTT" :> 10) @@ ("NTV" :> 1807))

mmr_voxel(H, id) ==
  LET H1 == NewList(H, Ref(id, "TRGTSCT"), TRGTSCT)
  IN Put(H1, id,
         ("SO_IMZ" :> 127) @@ ("SO_IMY" :> 344) @@ ("SO_IMX" :> 344)
         @@ ("SO_VXX" :> Dec(208626, -6)) @@ ("SO_VXY" :> Dec(208626, -6))
         @@ ("SO_VXZ" :> Dec(203125, -6))
         @@ ("SZ_IMZ" :> 127) @@ ("SZ_IMY" :> 320) @@ ("SZ_IMX" :> 320)
         @@ ("SZ_VOXY" :> Dec(208626, -6)) @@ ("SZ_VOXZ" :> Dec(203125, -6))
         @@ ("TRGTSCT" :> Ref(id, "TRGTSCT")))

\* int(scale * dim) where the code has ceil(scale * dim)
EvenCeil_floor(scale, dim) == ((-Ceil(Neg(Mul(scale, FromInt(dim))))) \div 2) * 2

\* int(ceil(scale * dim) // 2 * 2)
EvenCeil(scale, dim) == (Ceil(Mul(scale, FromInt(dim))) \div 2) * 2

\* scatter axial ring definition
sct_irng == <<0, 10, 19, 28, 35, 44, 53, 63>>

\* the cosine step over NCOS intervals where the code has NCOS - 1
mmr_scatter_ncos(H, id) ==
  LET C        == Get(H, id)
      T        == H.l[C["TRGTSCT"]]
      NCOS     == 256
      COSUPSMX == Dec(725, -3)
      SS_IMX   == EvenCeil(T[1], C["SO_IMX"])
      SS_IMY   == EvenCeil(T[1], C["SO_IMY"])
      SS_IMZ   == EvenCeil(T[1], C["SO_IMZ"]) - 1
      SS_VXY   == Round(Div(Mul(C["SO_VXY"], FromInt(C["SO_IMX"])), FromInt(SS_IMX)), 6)
      SS_VXZ   == Round(Div(Mul(C["SO_VXZ"], FromInt(C["SO_IMZ"])), FromInt(SS_IMZ)), 6)
      IS_VXZ   == Round(Div(FromInt(1), SS_VXZ), 6)
      SSE_IMX  == EvenCeil(T[2], C["SO_IMX"])
      SSE_IMY  == EvenCeil(T[2], C["SO_IMY"])
      SSE_IMZ  == EvenCeil(T[2], C["SO_IMZ"]) + 1
      SSE_VXY  == Round(Div(Mul(C["SO_VXY"], FromInt(C["SO_IMX"])), FromInt(SSE_IMX)), 6)
      SSE_VXZ  == Round(Div(Mul(C["SO_VXZ"], FromInt(C["SO_IMZ"])), FromInt(SSE_IMZ)), 6)
      H1 == NewList(H, Ref(id, "SCTSCLEM"),
                    <<Div(FromInt(SSE_IMZ), FromInt(C["SO_IMZ"])),
                      Div(FromInt(SSE_IMY), FromInt(C["SO_IMY"])),
                      Div(FromInt(SSE_IMX), FromInt(C["SO_IMX"]))>>)
      H2 == NewList(H1, Ref(id, "SCTSCLMU"),
                    <<Div(FromInt(SS_IMZ), FromInt(C["SO_IMZ"])),
                      Div(FromInt(SS_IMY), FromInt(C["SO_IMY"])),
                      Div(FromInt(SS_IMX), FromInt(C["SO_IMX"]))>>)
      H3 == NewList(H2, Ref(id, "SIRNG"), sct_irng)
  IN Put(H3, id,
         ("SS_IMZ" :> SS_IMZ) @@ ("SS_IMY" :> SS_IMY) @@ ("SS_IMX" :> SS_IMX)
         @@ ("SS_VXZ" :> SS_VXZ) @@ ("SS_VXY" :> SS_VXY) @@ ("IS_VXZ" :> IS_VXZ)
         @@ ("SSE_IMZ" :> SSE_IMZ) @@ ("SSE_IMY" :> SSE_IMY) @@ ("SSE_IMX" :> SSE_IMX)
         @@ ("SSE_VXZ" :> SSE_VXZ) @@ ("SSE_VXY" :> SSE_VXY)
         @@ ("SCTSCLEM" :> Ref(id, "SCTSCLEM")) @@ ("SCTSCLMU" :> Ref(id, "SCTSCLMU"))
         @@ ("SRFCRS" :> Dec(1695112, -7)) @@ ("LLD" :> 430000) @@ ("E511" :> 511008)
         @@ ("ER" :> Dec(0, 0)) @@ ("SIRNG" :> Ref(id, "SIRNG"))
         @@ ("NSRNG" :> Len(sct_irng)) @@ ("NCOS" :> NCOS) @@ ("COSUPSMX" :> COSUPSMX)
         @@ ("COSSTP" :> Div(Sub(FromInt(1), COSUPSMX), FromInt(NCOS)))
         @@ ("ICOSSTP" :> Div(FromInt(NCOS - 1), Sub(FromInt(1), COSUPSMX)))
         @@ ("ETHRLD" :> Dec(5, -2)))

mmr_scatter(H, id) ==
  LET C        == Get(H, id)
      T        == H.l[C["TRGTSCT"]]
      NCOS     == 256
      COSUPSMX == Dec(725, -3)
      SS_IMX   == EvenCeil(T[1], C["SO_IMX"])
      SS_IMY   == EvenCeil(T[1], C["SO_IMY"])
      SS_IMZ   == EvenCeil(T[1], C["SO_IMZ"]) - 1
      SS_VXY   == Round(Div(Mul(C["SO_VXY"], FromInt(C["SO_IMX"])), FromInt(SS_IMX)), 6)
      SS_VXZ   == Round(Div(Mul(C["SO_VXZ"], FromInt(C["SO_IMZ"])), FromInt(SS_IMZ)), 6)
      IS_VXZ   == Round(Div(FromInt(1), SS_VXZ), 6)
      SSE_IMX  == EvenCeil(T[2], C["SO_IMX"])
      SSE_IMY  == EvenCeil(T[2], C["SO_IMY"])
      SSE_IMZ  == EvenCeil(T[2], C["SO_IMZ"]) + 1
      SSE_VXY  == Round(Div(Mul(C["SO_VXY"], FromInt(C["SO_IMX"])), FromInt(SSE_IMX)), 6)
      SSE_VXZ  == Round(Div(Mul(C["SO_VXZ"], FromInt(C["SO_IMZ"])), FromInt(SSE_IMZ)), 6)
      H1 == NewList(H, Ref(id, "SCTSCLEM"),
                    <<Div(FromInt(SSE_IMZ), FromInt(C["SO_IMZ"])),
                      Div(FromInt(SSE_IMY), FromInt(C["SO_IMY"])),
                      Div(FromInt(SSE_IMX), FromInt(C["SO_IMX"]))>>)
      H2 == NewList(H1, Ref(id, "SCTSCLMU"),
                    <<Div(FromInt(SS_IMZ), FromInt(C["SO_IMZ"])),
                      Div(FromInt(SS_IMY), FromInt(C["SO_IMY"])),
                      Div(FromInt(SS_IMX), FromInt(C["SO_IMX"]))>>)
      H3 == NewList(H2, Ref(id, "SIRNG"), sct_irng)
  IN Put(H3, id,
         ("SS_IMZ" :> SS_IMZ) @@ ("SS_IMY" :> SS_IMY) @@ ("SS_IMX" :> SS_IMX)
         @@ ("SS_VXZ" :> SS_VXZ) @@ ("SS_VXY" :> SS_VXY) @@ ("IS_VXZ" :> IS_VXZ)
         @@ ("SSE_IMZ" :> SSE_IMZ) @@ ("SSE_IMY" :> SSE_IMY) @@ ("SSE_IMX" :> SSE_IMX)
         @@ ("SSE_VXZ" :> SSE_VXZ) @@ ("SSE_VXY" :> SSE_VXY)
         @@ ("SCTSCLEM" :> Ref(id, "SCTSCLEM")) @@ ("SCTSCLMU" :> Ref(id, "SCTSCLMU"))
         @@ ("SRFCRS" :> Dec(1695112, -7)) @@ ("LLD" :> 430000) @@ ("E511" :> 511008)
         @@ ("ER" :> Dec(0, 0)) @@ ("SIRNG" :> Ref(id, "SIRNG"))
         @@ ("NSRNG" :> Len(sct_irng)) @@ ("NCOS" :> NCOS) @@ ("COSUPSMX" :> COSUPSMX)
         @@ ("COSSTP" :> Div(Sub(FromInt(1), COSUPSMX), FromInt(NCOS - 1)))
         @@ ("ICOSSTP" :> Div(FromInt(NCOS - 1), Sub(FromInt(1), COSUPSMX)))
         @@ ("ETHRLD" :> Dec(5, -2)))

\* ITOFBIND as 1 / TOFBINS, the speed of light left out of the reciprocal
mmr_tof_binwidth(H, id) ==
  LET C       == Get(H, id)
      TOFBINS == Dec(390, -12)
  IN Put(H, id,
         ("TOFBINN" :> 1) @@ ("TOFBINS" :> TOFBINS)
         @@ ("TOFBIND" :> WMul(TOFBINS, C["CLGHT"]))
         @@ ("ITOFBIND" :> WInv(WDec(TOFBINS.n, TOFBINS.e))))

\* the TOF update writing CLGHT again, in m/s
mmr_tof_light(H, id) ==
  LET C       == Get(H, id)
      TOFBINS == Dec(390, -12)
  IN Put(H, id,
         ("TOFBINN" :> 1) @@ ("TOFBINS" :> TOFBINS)
         @@ ("CLGHT" :> Dec(299792458, 0))
         @@ ("TOFBIND" :> WMul(TOFBINS, C["CLGHT"]))
         @@ ("ITOFBIND" :> WInv(WMul(TOFBINS, C["CLGHT"]))))

mmr_tof(H, id) ==
  LET C       == Get(H, id)
      TOFBINS == Dec(390, -12)
  IN Put(H, id,
         ("TOFBINN" :> 1) @@ ("TOFBINS" :> TOFBINS)
         @@ ("TOFBIND" :> WMul(TOFBINS, C["CLGHT"]))
         @@ ("ITOFBIND" :> WInv(WMul(TOFBINS, C["CLGHT"]))))

(***************************************************************************)
(* The entry points as sequences of merge steps.                           *)
(***************************************************************************)
Builders == {"get_sig_constants", "get_synchropet_constants",
             "get_inv_constants", "get_mmr_constants"}

SetupSteps == <<"baseline", "gpu", "paths">>

Steps(fn) ==
  CASE fn = "get_setup" -> SetupSteps
    [] fn = "get_sig_constants" ->
         SetupSteps \o <<"sig_hardware", "sig_sinogram", "sig_voxel", "devgrid", "affine">>
    [] fn = "get_synchropet_constants" ->
         SetupSteps \o <<"syn_hardware", "syn_derived", "syn_sinogram", "syn_voxel", "affine">>
    [] fn = "get_inv_constants" ->
         SetupSteps \o <<"inv_hardware", "inv_sinogram", "inv_voxel", "devgrid", "affine">>
    [] fn = "get_mmr_constants" ->
         SetupSteps \o <<"mmr_hardware", "mmr_sinogram", "mmr_voxel", "affine",
                         "mmr_scatter", "mmr_tof">>

\* the heap after one merge step on the dictionary id
StepEffect(step, H, id, G) ==
  CASE step = "baseline"     -> get_setup_baseline(H, id)
    [] step = "gpu"          -> get_gpu_constants(H, id, G)
    [] step = "paths"        -> get_setup_paths(H, id, G)
    [] step = "sig_hardware" -> sig_hardware(H, id)
    [] step = "sig_sinogram" -> sig_sinogram(H, id)
    [] step = "sig_voxel"    -> sig_voxel(H, id)
    [] step = "devgrid"      -> devgrid_update(H, id)
    [] step = "affine"       -> affine_update(H, id)
    [] step = "syn_hardware" -> syn_hardware(H, id)
    [] step = "syn_derived"  -> syn_derived(H, id)
    [] step = "syn_sinogram" -> syn_sinogram(H, id)
    [] step = "syn_voxel"    -> syn_voxel(H, id)
    [] step = "inv_hardware" -> inv_hardware(H, id)
    [] step = "inv_sinogram" -> inv_sinogram(H, id)
    [] step = "inv_voxel"    -> inv_voxel(H, id)
    [] step = "mmr_hardware" -> mmr_hardware(H, id)
    [] step = "mmr_sinogram" -> mmr_sinogram(H, id)
    [] step = "mmr_voxel"    -> mmr_voxel(H, id)
    [] step = "mmr_scatter"  -> mmr_scatter(H, id)
    [] step = "mmr_tof"      -> mmr_tof(H, id)

\* the heap without the dictionary id and the lists made for it
Drop(H, id) ==
  [d |-> [i \in DOMAIN H.d \ {id} |-> H.d[i]],
   l |-> [r \in {x \in DOMAIN H.l : x[1] # id \/ x = ModRef} |-> H.l[r]],
   w |-> [i \in DOMAIN H.w \ {id} |-> H.w[i]]]

\* the first n merge steps of fn, run with no other call, on dictionary id
RECURSIVE RunSteps(_, _, _, _, _)
RunSteps(fn, n, H, id, G) ==
  IF n = 0 THEN H
  ELSE StepEffect(Steps(fn)[n], RunSteps(fn, n - 1, H, id, G), id, G)

\* the record of the first n steps of fn run alone, the module list holding ml
AlonePrefix(fn, n, G, ml) ==
  Resolve(RunSteps(fn, n, [InitHeap EXCEPT !.l[ModRef] = ml], 1, G), 1)

\* the record fn returns when run alone
Alone(fn, G, ml) == AlonePrefix(fn, Len(Steps(fn)), G, ml)

\* the record a first call of fn returns, right after import
FirstCall(fn, G) == Alone(fn, G, hrdwr_mu_mmr)

(***************************************************************************)
(* The isotope table.                                                      *)
(***************************************************************************)
\* the half-life of F18 left in minutes
riLUT_literal_minutes ==
  ("Ge68" :> [BF |-> Dec(891, -3),
              thalf |-> WMulInt(WMulInt(WMulInt(WDec(2709516, -4), 24), 60), 60)])
  @@ ("Ga68" :> [BF |-> Dec(891, -3), thalf |-> WMulInt(WDec(6771, -2), 60)])
  @@ ("F18" :> [BF |-> Dec(967, -3), thalf |-> WDec(10977120, -5)])
  @@ ("C11" :> [BF |-> Dec(998, -3), thalf |-> WMulInt(WDec(2038, -2), 60)])
  @@ ("O15" :> [BF |-> Dec(999, -3), thalf |-> WDec(1222416, -4)])

\* riLUT as the module defines it: BF and thalf (seconds) per isotope
riLUT_literal ==
  ("Ge68" :> [BF |-> Dec(891, -3),
              thalf |-> WMulInt(WMulInt(WMulInt(WDec(2709516, -4), 24), 60), 60)])
  @@ ("Ga68" :> [BF |-> Dec(891, -3), thalf |-> WMulInt(WDec(6771, -2), 60)])
  @@ ("F18" :> [BF |-> Dec(967, -3), thalf |-> WMulInt(WDec(10977120, -5), 60)])
  @@ ("C11" :> [BF |-> Dec(998, -3), thalf |-> WMulInt(WDec(2038, -2), 60)])
  @@ ("O15" :> [BF |-> Dec(999, -3), thalf |-> WDec(1222416, -4)])

\* the names a client may ask for: the listed ones and two that are not
IsotopeNames == DOMAIN riLUT_literal \cup {"Na22", ""}

\* isotope lookup: the entry of a listed name, UnknownIsotope otherwise; the table
\* is only read
lookup(tbl, name) ==
  IF name \in DOMAIN tbl
  THEN [ok |-> TRUE, name |-> name, val |-> tbl[name], tbl |-> tbl]
  ELSE [ok |-> FALSE, name |-> name, exc |-> "UnknownIsotope", tbl |-> tbl]

(***************************************************************************)
(* The client threads.                                                     *)
(***************************************************************************)
\* two clients: enough for two calls to overlap
Threads == {1, 2}

\* how many times a client changes a record it holds before letting go of it
MaxMut == 1

Idle == [fn |-> "", arg |-> Nil, st |-> "idle", pc |-> 0, cnt |-> 0,
         ret |-> Nil, mod |-> Nil, nmut |-> 0, passed |-> Nil]

\* the thread holds a dictionary that a call returned to it
Holds(t) == th[t].st = "done" /\ th[t].fn # "lookup"

\* what a client may change in a record it holds: a top-level value, or a nested
\* list in place
MutKeys == {"LOG", "HMULIST", "TRGTSCT", "SIRNG", "SEG"}

\* the value a client writes: the logging level, or the first element of a list
MutValue(k) ==
  CASE k = "LOG"     -> 10
    [] k = "HMULIST" -> "umap_custom.v.hdr"
    [] k = "TRGTSCT" -> Dec(1, 0)
    [] k = "SIRNG"   -> 1
    [] k = "SEG"     -> 1

Init ==
  /\ heap = InitHeap
  /\ globals \in ModuleConfigs
  /\ riLUT = riLUT_literal
  /\ th = [t \in Threads |-> Idle]

\* the thread calls a builder, or get_setup with no argument or with the base
\* record it holds (its earlier result, changed or not, as the overrides)
Call(t, fn, arg) ==
  /\ th[t].st \in {"idle", "done"}
  /\ arg # Nil => (fn = "get_setup" /\ Holds(t) /\ th[t].fn = "get_setup"
                   /\ arg = <<th[t].cnt>>)
  /\ LET o == get_setup_Cnt(t, arg)
     IN /\ heap' = IF o.fresh THEN Drop(heap, o.id) ELSE heap
        /\ th' = [th EXCEPT ![t] = [Idle EXCEPT !.fn = fn, !.arg = arg, !.st = "run",
                                                !.pc = 1, !.cnt = o.id,
                                                !.nmut = IF arg = Nil THEN 0
                                                         ELSE th[t].nmut,
                                                \* what the argument held at the call
                                                !.passed = IF arg = Nil THEN Nil
                                                           ELSE <<Resolve(heap, arg[1])>>]]
  /\ UNCHANGED <<globals, riLUT>>

\* one merge step of the call
Step(t) ==
  /\ th[t].st = "run"
  /\ th[t].pc <= Len(Steps(th[t].fn))
  /\ heap' = StepEffect(Steps(th[t].fn)[th[t].pc], heap, th[t].cnt, globals)
  /\ th' = [th EXCEPT ![t].pc = @ + 1]
  /\ UNCHANGED <<globals, riLUT>>

\* return Cnt: the caller receives the dictionary; ret records what it holds then
Return(t) ==
  /\ th[t].st = "run"
  /\ th[t].pc = Len(Steps(th[t].fn)) + 1
  /\ th' = [th EXCEPT ![t].st = "done", ![t].ret = <<Resolve(heap, th[t].cnt)>>,
                      ![t].mod = <<heap.l[ModRef]>>]
  /\ UNCHANGED <<heap, globals, riLUT>>

\* the client changes the record it holds: Cnt[k] = v, or Cnt[k][0] = v
Mutate(t, k) ==
  /\ Holds(t)
  /\ th[t].nmut < MaxMut
  /\ k \in DOMAIN Get(heap, th[t].cnt)
  /\ IF k \in ListKeys
     THEN LET ref == Get(heap, th[t].cnt)[k]
          IN /\ heap.l[ref][1] # MutValue(k)
             /\ heap' = [heap EXCEPT !.l[ref][1] = MutValue(k)]
     ELSE /\ Get(heap, th[t].cnt)[k] # MutValue(k)
          /\ heap' = Put(heap, th[t].cnt, k :> MutValue(k))
  /\ th' = [th EXCEPT ![t].nmut = @ + 1]
  /\ UNCHANGED <<globals, riLUT>>

\* the client looks an isotope up, letting go of what it held
Lookup(t, name) ==
  /\ th[t].st \in {"idle", "done"}
  /\ LET r == lookup(riLUT, name)
     IN /\ riLUT' = r.tbl
        /\ th' = [th EXCEPT ![t] = [Idle EXCEPT !.fn = "lookup", !.arg = <<name>>,
                                                !.st = "done", !.ret = <<r>>]]
  /\ heap' = Drop(heap, t)
  /\ UNCHANGED globals

Next ==
  \E t \in Threads :
    \/ \E fn \in Builders \cup {"get_setup"} : Call(t, fn, Nil)
    \/ Call(t, "get_setup", <<th[t].cnt>>)
    \/ Step(t)
    \/ Return(t)
    \/ \E k \in MutKeys : Mutate(t, k)
    \/ \E name \in IsotopeNames : Lookup(t, name)

Spec == Init /\ [][Next]_vars


(***************************************************************************)
(* The properties.                                                         *)
(***************************************************************************)
\* the thread has a record that a builder returned to it
Returned(t) == th[t].st = "done" /\ th[t].fn \in Builders

\* the record as it was returned
Rec(t) == th[t].ret[1]

\* C1: in every record a builder returns, R_RING is R + DOI and IR_RING is
\* 1 / R_RING rounded to 6 decimal places.
C1_RingRadius ==
  \A t \in Threads :
    Returned(t) =>
      /\ Rec(t)["R_RING"] = Add(Rec(t)["R"], Rec(t)["DOI"])
      /\ Rec(t)["IR_RING"] = Round(Div(FromInt(1), Rec(t)["R_RING"]), 6)

\* a SynchroPET record (R 2.285, DOI 0.2) and an mMR record (R 32.8, DOI 0.67) are
\* held at once, with their rounded inverse radii
C1_Witness ==
  /\ Returned(1) /\ th[1].fn = "get_synchropet_constants"
  /\ Rec(1)["R_RING"] = Dec(2485, -3) /\ Rec(1)["IR_RING"] = Dec(402414, -6)
  /\ Returned(2) /\ th[2].fn = "get_mmr_constants"
  /\ Rec(2)["R_RING"] = Dec(3347, -2) /\ Rec(2)["IR_RING"] = Dec(29878, -6)

\* C2 as stated: the translation column of AFFINE is 5*SO_IMX*SO_VXX,
\* -5*SO_IMY*SO_VXY and 5*SO_IMZ*SO_VXZ, only the Y entry being negated.
C2_OnlyYNegated ==
  \A t \in Threads :
    Returned(t) =>
      LET r == Rec(t)
          A == r["AFFINE"]
      IN /\ A[1][4] = Mul(Mul(FromInt(5), FromInt(r["SO_IMX"])), r["SO_VXX"])
         /\ A[2][4] = Neg(Mul(Mul(FromInt(5), FromInt(r["SO_IMY"])), r["SO_VXY"]))
         /\ A[3][4] = Mul(Mul(FromInt(5), FromInt(r["SO_IMZ"])), r["SO_VXZ"])

\* C2: the translation column of AFFINE is 5*SO_IMX*SO_VXX, -5*SO_IMY*SO_VXY and
\* -5*SO_IMZ*SO_VXZ: the Y entry and the Z entry are both negated.
C2_YAndZNegated ==
  \A t \in Threads :
    Returned(t) =>
      LET r == Rec(t)
          A == r["AFFINE"]
      IN /\ A[1][4] = Mul(Mul(FromInt(5), FromInt(r["SO_IMX"])), r["SO_VXX"])
         /\ A[2][4] = Neg(Mul(Mul(FromInt(5), FromInt(r["SO_IMY"])), r["SO_VXY"]))
         /\ A[3][4] = Neg(Mul(Mul(FromInt(5), FromInt(r["SO_IMZ"])), r["SO_VXZ"]))

\* an mMR record is held whose translation is (358.83672, -358.83672, -128.984375)
C2_Witness ==
  \E t \in Threads :
    /\ Returned(t) /\ th[t].fn = "get_mmr_constants"
    /\ Rec(t)["AFFINE"][1][4] = Dec(35883672, -5)
    /\ Rec(t)["AFFINE"][2][4] = Dec(-35883672, -5)
    /\ Rec(t)["AFFINE"][3][4] = Dec(-128984375, -6)

\* C3: in every record a builder returns, IMSIZE is [SO_IMZ, SO_IMY, SO_IMX], and
\* AFFINE is a 4x4 matrix with the diagonal (-10*SO_VXX, 10*SO_VXY, 10*SO_VXZ, 1)
\* and zero everywhere outside the diagonal and the translation column.
C3_ImsizeAffine ==
  \A t \in Threads :
    Returned(t) =>
      LET r == Rec(t)
          A == r["AFFINE"]
      IN /\ r["IMSIZE"] = <<r["SO_IMZ"], r["SO_IMY"], r["SO_IMX"]>>
         /\ Len(A) = 4
         /\ \A i \in 1..4 : Len(A[i]) = 4
         /\ A[1][1] = Mul(FromInt(-10), r["SO_VXX"])
         /\ A[2][2] = Mul(FromInt(10), r["SO_VXY"])
         /\ A[3][3] = Mul(FromInt(10), r["SO_VXZ"])
         /\ A[4][4] = FromInt(1)
         /\ \A i \in 1..4 : \A j \in 1..3 : i # j => A[i][j] = FromInt(0)

\* a Signa record is held: its axial size 89 differs from its transaxial size 288,
\* so the order of IMSIZE shows, and its voxel sizes differ, so the diagonal shows
C3_Witness ==
  \E t \in Threads :
    /\ Returned(t) /\ th[t].fn = "get_sig_constants"
    /\ Rec(t)["IMSIZE"] = <<89, 288, 288>>
    /\ Rec(t)["AFFINE"][1][1] = Dec(-208333, -5)
    /\ Rec(t)["AFFINE"][3][3] = Dec(278, -2)

\* C4 as stated: whatever the callers did to the records they hold, every record a
\* builder returns is the one a first call returns, and the module-level tables
\* riLUT and hrdwr_mu_mmr are as the module defines them.
C4_NoSharedState ==
  /\ \A t \in Threads :
       Returned(t) => SameRecord(Rec(t), FirstCall(th[t].fn, globals))
  /\ riLUT = riLUT_literal
  /\ heap.l[ModRef] = hrdwr_mu_mmr

\* C5: NSN1 is NRNG squared in the Signa, Inveon and SynchroPET records; in the
\* mMR record NSN64 is NRNG squared, which is 4096.
C5_RingPairs ==
  \A t \in Threads :
    Returned(t) =>
      LET r == Rec(t)
      IN IF th[t].fn = "get_mmr_constants"
         THEN r["NSN64"] = r["NRNG"] * r["NRNG"] /\ r["NSN64"] = 4096
         ELSE r["NSN1"] = r["NRNG"] * r["NRNG"]

\* an Inveon record (80 rings, the literal 6400) and an mMR record are held at once
C5_Witness ==
  /\ Returned(1) /\ th[1].fn = "get_inv_constants"
  /\ Rec(1)["NRNG"] = 80 /\ Rec(1)["NSN1"] = 6400
  /\ Returned(2) /\ th[2].fn = "get_mmr_constants"
  /\ Rec(2)["NRNG"] = 64 /\ Rec(2)["NSN64"] = 4096

\* C6: in the mMR record SS_IMX, SS_IMY, SSE_IMX and SSE_IMY are even and equal
\* 2 * floor(ceil(TRGTSCT[i] * SO_IM*) / 2), an even integer within 1 of the scaled
\* size; SS_IMZ is that even integer minus 1 and SSE_IMZ that even integer plus 1,
\* both odd.
C6_ScatterDims ==
  \A t \in Threads :
    (Returned(t) /\ th[t].fn = "get_mmr_constants") =>
      LET r  == Rec(t)
          EvenOf(x) == 2 * (Ceil(x) \div 2)
          mu(d) == Mul(r["TRGTSCT"][1], FromInt(r[d]))
          em(d) == Mul(r["TRGTSCT"][2], FromInt(r[d]))
          Near(e, x) == Leq(Sub(x, FromInt(1)), FromInt(e)) /\ Leq(FromInt(e), Add(x, FromInt(1)))
      IN /\ r["SS_IMX"] = EvenOf(mu("SO_IMX")) /\ r["SS_IMX"] % 2 = 0
         /\ r["SS_IMY"] = EvenOf(mu("SO_IMY")) /\ r["SS_IMY"] % 2 = 0
         /\ r["SSE_IMX"] = EvenOf(em("SO_IMX")) /\ r["SSE_IMX"] % 2 = 0
         /\ r["SSE_IMY"] = EvenOf(em("SO_IMY")) /\ r["SSE_IMY"] % 2 = 0
         /\ Near(r["SS_IMX"], mu("SO_IMX")) /\ Near(r["SS_IMY"], mu("SO_IMY"))
         /\ Near(r["SSE_IMX"], em("SO_IMX")) /\ Near(r["SSE_IMY"], em("SO_IMY"))
         /\ r["SS_IMZ"] = EvenOf(mu("SO_IMZ")) - 1 /\ r["SS_IMZ"] % 2 = 1
         /\ r["SSE_IMZ"] = EvenOf(em("SO_IMZ")) + 1 /\ r["SSE_IMZ"] % 2 = 1

\* an mMR record is held with the scatter images 172 x 172 x 63 and 114 x 114 x 43
C6_Witness ==
  \E t \in Threads :
    /\ Returned(t) /\ th[t].fn = "get_mmr_constants"
    /\ Rec(t)["SS_IMX"] = 172 /\ Rec(t)["SS_IMY"] = 172 /\ Rec(t)["SS_IMZ"] = 63
    /\ Rec(t)["SSE_IMX"] = 114 /\ Rec(t)["SSE_IMY"] = 114 /\ Rec(t)["SSE_IMZ"] = 43

\* C7: two calls of the same builder, the module-level state being the same at
\* both returns, return equal records.
C7_Deterministic ==
  \A t, u \in Threads :
    (Returned(t) /\ Returned(u) /\ th[t].fn = th[u].fn /\ th[t].mod = th[u].mod) =>
      SameRecord(Rec(t), Rec(u))

\* two records of one builder are held, the module-level list the same at both
\* returns, and the holder of the first has changed its own record since
C7_Witness ==
  /\ Returned(1) /\ Returned(2) /\ th[1].fn = th[2].fn
  /\ th[1].mod = th[2].mod
  /\ th[1].nmut > 0
  /\ ~SameRecord(Resolve(heap, th[1].cnt), Rec(1))

\* C8: however the merge steps of the calls in flight interleave, each call has
\* built exactly what its steps build when it runs alone, and returns the record
\* it returns when it runs alone.
C8_Interleaving ==
  \A t \in Threads :
    th[t].fn \in Builders =>
      /\ th[t].st = "run" =>
           SameRecord(Resolve(heap, th[t].cnt),
                      AlonePrefix(th[t].fn, th[t].pc - 1, globals, heap.l[ModRef]))
      /\ th[t].st = "done" =>
           SameRecord(Rec(t), Alone(th[t].fn, globals, th[t].mod[1]))

\* two calls of the mMR builder are in flight at once, both past the base settings
\* and at different steps
C8_Witness ==
  /\ th[1].st = "run" /\ th[2].st = "run"
  /\ th[1].fn = "get_mmr_constants" /\ th[2].fn = "get_mmr_constants"
  /\ th[1].pc > Len(SetupSteps) + 1 /\ th[2].pc > Len(SetupSteps) + 1
  /\ th[1].pc # th[2].pc

\* C9: the lookup of a listed isotope gives its branching fraction, in [0, 1], and
\* its half-life in seconds, positive: 0.967 and 109.7712 * 60 for F18; the lookup
\* of a name that is not listed raises UnknownIsotope; the table stays as it is.
C9_IsotopeLookup ==
  /\ riLUT = riLUT_literal
  /\ \A t \in Threads :
       (th[t].st = "done" /\ th[t].fn = "lookup") =>
         LET r == Rec(t)
         IN IF r.name \in {"Ge68", "Ga68", "F18", "C11", "O15"}
            THEN /\ r.ok
                 /\ Leq(FromInt(0), r.val.BF) /\ Leq(r.val.BF, FromInt(1))
                 /\ WIsPos(r.val.thalf)
                 /\ r.name = "F18" =>
                      /\ r.val.BF = Dec(967, -3)
                      /\ r.val.thalf = WDec(6586272, -3)
            ELSE ~r.ok /\ r.exc = "UnknownIsotope"

\* one client has looked F18 up and the other a name that is not listed
C9_Witness ==
  /\ th[1].st = "done" /\ th[1].fn = "lookup" /\ Rec(1).name = "F18" /\ Rec(1).ok
  /\ th[2].st = "done" /\ th[2].fn = "lookup" /\ Rec(2).name = "Na22" /\ ~Rec(2).ok

\* the thread has a record that get_setup or a builder returned to it
Completed(t) == th[t].st = "done" /\ th[t].fn \in Builders \cup {"get_setup"}

\* C11: a record that get_setup or a builder returns has DEVID exactly when the
\* module global DEV_ID is defined and not None, and CCARCH exactly when CC_ARCH is;
\* the key then holds the value of the global.
C11_GpuKeys ==
  \A t \in Threads :
    Completed(t) =>
      /\ IF "DEV_ID" \in DOMAIN globals /\ globals["DEV_ID"] # Nil
         THEN "DEVID" \in DOMAIN Rec(t) /\ Rec(t)["DEVID"] = globals["DEV_ID"][1]
         ELSE "DEVID" \notin DOMAIN Rec(t)
      /\ IF "CC_ARCH" \in DOMAIN globals /\ globals["CC_ARCH"] # Nil
         THEN "CCARCH" \in DOMAIN Rec(t) /\ Rec(t)["CCARCH"] = globals["CC_ARCH"][1]
         ELSE "CCARCH" \notin DOMAIN Rec(t)
      /\ "DEV_ID" \notin DOMAIN Rec(t) /\ "CC_ARCH" \notin DOMAIN Rec(t)

\* DEV_ID is None and CC_ARCH is defined: get_setup has returned to one client and
\* a builder to the other, both records without DEVID and with CCARCH
C11_Witness ==
  /\ "DEV_ID" \in DOMAIN globals /\ globals["DEV_ID"] = Nil
  /\ Completed(1) /\ th[1].fn = "get_setup"
  /\ "DEVID" \notin DOMAIN Rec(1) /\ "CCARCH" \in DOMAIN Rec(1)
  /\ Completed(2) /\ th[2].fn = "get_mmr_constants"
  /\ "DEVID" \notin DOMAIN Rec(2) /\ "CCARCH" \in DOMAIN Rec(2)

\* C12: in the mMR record TOFBINS is 390e-12 and CLGHT is 29979245800, TOFBIND is
\* their product 11.691905862, and ITOFBIND is 1 / TOFBIND, so that
\* TOFBIND * ITOFBIND is 1.
C12_TofBin ==
  \A t \in Threads :
    (Returned(t) /\ th[t].fn = "get_mmr_constants") =>
      LET r == Rec(t)
      IN /\ r["TOFBINS"] = Dec(390, -12)
         /\ r["CLGHT"] = Dec(299792458, 2)
         \* 390 * 29979245800 = 11691905862000, times 10^-12
         /\ r["TOFBIND"] = [w |-> <<5862, 9190, 116>>, e |-> -9]
         /\ r["TOFBIND"] = WMulInt(WDec(r["CLGHT"].n, r["CLGHT"].e + r["TOFBINS"].e),
                                   r["TOFBINS"].n)
         \* the reciprocal num / den * 10^e of den * 10^-e
         /\ r["ITOFBIND"].num = 1
         /\ r["ITOFBIND"].den = r["TOFBIND"].w
         /\ r["ITOFBIND"].e + r["TOFBIND"].e = 0

\* an mMR record is held with the bin of 11.691905862 cm and its reciprocal
C12_Witness ==
  \E t \in Threads :
    /\ Returned(t) /\ th[t].fn = "get_mmr_constants"
    /\ WIsPos(Rec(t)["TOFBIND"])
    /\ Rec(t)["TOFBIND"].e = -9
    /\ Rec(t)["ITOFBIND"] = [num |-> 1, den |-> <<5862, 9190, 116>>, e |-> 9]

C14_RingRange ==
  \A t \in Threads :
    Returned(t) =>
      /\ Rec(t)["RNG_STRT"] = 0
      /\ Rec(t)["RNG_END"] = Rec(t)["NRNG"]
      /\ Rec(t)["RNG_END"] - Rec(t)["RNG_STRT"] > 0

\* a Signa record (45 rings) and an Inveon record (80 rings) are held at once
C14_Witness ==
  /\ Returned(1) /\ th[1].fn = "get_sig_constants"
  /\ Rec(1)["RNG_STRT"] = 0 /\ Rec(1)["RNG_END"] = 45
  /\ Returned(2) /\ th[2].fn = "get_inv_constants"
  /\ Rec(2)["RNG_STRT"] = 0 /\ Rec(2)["RNG_END"] = 80

\* C15 as stated: a call of get_setup that is given a record works on another
\* object, which it returns, and leaves the record it was given as it was.
C15_NewRecord ==
  \A t \in Threads :
    (th[t].fn = "get_setup" /\ th[t].arg # Nil) =>
      /\ th[t].cnt # th[t].arg[1]
      /\ th[t].st = "run" => SameRecord(Resolve(heap, th[t].arg[1]), th[t].passed[1])

\* C16 as stated: every field that a builder rounds is its expression rounded to 6
\* decimal places, the SynchroPET R and the Inveon ALPHA among them.
C16_AllSixDecimals ==
  \A t \in Threads :
    Returned(t) =>
      LET r   == Rec(t)
          one == FromInt(1)
          fn  == th[t].fn
      IN /\ r["R_2"] = Round(Sq(Add(r["R"], r["DOI"])), 6)
         /\ r["IR_RING"] = Round(Div(one, Add(r["R"], r["DOI"])), 6)
         /\ r["SZ_VOXZi"] = Round(Div(one, r["SZ_VOXZ"]), 6)
         /\ fn = "get_mmr_constants" =>
              /\ r["SS_VXY"] = Round(Div(Mul(r["SO_VXY"], FromInt(r["SO_IMX"])),
                                         FromInt(r["SS_IMX"])), 6)
              /\ r["SS_VXZ"] = Round(Div(Mul(r["SO_VXZ"], FromInt(r["SO_IMZ"])),
                                         FromInt(r["SS_IMZ"])), 6)
              /\ r["IS_VXZ"] = Round(Div(one, r["SS_VXZ"]), 6)
              /\ r["SSE_VXY"] = Round(Div(Mul(r["SO_VXY"], FromInt(r["SO_IMX"])),
                                          FromInt(r["SSE_IMX"])), 6)
              /\ r["SSE_VXZ"] = Round(Div(Mul(r["SO_VXZ"], FromInt(r["SO_IMZ"])),
                                          FromInt(r["SSE_IMZ"])), 6)
         /\ fn = "get_synchropet_constants" =>
              r["R"] = SqrtRoundLong(Sub(Sq(Div(r["LC2C"], FromInt(2))),
                                         Sq(Div(r["BLKWDTH"], FromInt(2)))), 6)
         /\ fn = "get_inv_constants" =>
              r["ALPHA"] = Round(Div(Mul(FromInt(2), Pi), FromInt(r["NTXBLK"])), 6)

\* C16: the fields that a builder rounds are rounded to 6 decimal places (R_2,
\* IR_RING, SZ_VOXZi, and SS_VXY, SS_VXZ, IS_VXZ, SSE_VXY, SSE_VXZ of the mMR
\* record), except the SynchroPET R, rounded to 3 decimal places, and the Inveon
\* ALPHA, rounded to 4.
C16_RoundingDigits ==
  \A t \in Threads :
    Returned(t) =>
      LET r   == Rec(t)
          one == FromInt(1)
          fn  == th[t].fn
      IN /\ r["R_2"] = Round(Sq(Add(r["R"], r["DOI"])), 6)
         /\ r["IR_RING"] = Round(Div(one, Add(r["R"], r["DOI"])), 6)
         /\ r["SZ_VOXZi"] = Round(Div(one, r["SZ_VOXZ"]), 6)
         /\ fn = "get_mmr_constants" =>
              /\ r["SS_VXY"] = Round(Div(Mul(r["SO_VXY"], FromInt(r["SO_IMX"])),
                                         FromInt(r["SS_IMX"])), 6)
              /\ r["SS_VXZ"] = Round(Div(Mul(r["SO_VXZ"], FromInt(r["SO_IMZ"])),
                                         FromInt(r["SS_IMZ"])), 6)
              /\ r["IS_VXZ"] = Round(Div(one, r["SS_VXZ"]), 6)
              /\ r["SSE_VXY"] = Round(Div(Mul(r["SO_VXY"], FromInt(r["SO_IMX"])),
                                          FromInt(r["SSE_IMX"])), 6)
              /\ r["SSE_VXZ"] = Round(Div(Mul(r["SO_VXZ"], FromInt(r["SO_IMZ"])),
                                          FromInt(r["SSE_IMZ"])), 6)
         /\ fn = "get_synchropet_constants" =>
              r["R"] = SqrtRoundLong(Sub(Sq(Div(r["LC2C"], FromInt(2))),
                                         Sq(Div(r["BLKWDTH"], FromInt(2)))), 3)
         /\ fn = "get_inv_constants" =>
              r["ALPHA"] = Round(Div(Mul(FromInt(2), Pi), FromInt(r["NTXBLK"])), 4)

\* a SynchroPET record with R = 2.285 and an Inveon record with ALPHA = 0.3927 are
\* held at once: neither value is its expression at 6 decimals (2.284935, 0.392699)
C16_Witness ==
  /\ Returned(1) /\ th[1].fn = "get_synchropet_constants" /\ Rec(1)["R"] = Dec(2285, -3)
  /\ Rec(1)["IR_RING"] = Dec(402414, -6)
  /\ Returned(2) /\ th[2].fn = "get_inv_constants" /\ Rec(2)["ALPHA"] = Dec(3927, -4)

\* the baseline values are in the record r as get_setup wrote them
BaselineKept(r) ==
  /\ r["LOG"] = 20 /\ r["VERBOSE"] = FALSE /\ r["ENBLXNAT"] = FALSE /\ r["ENBLAGG"] = FALSE
  /\ r["CMPL_DCM2NIIX"] = FALSE
  /\ r["R02"] = [w |-> <<5884, 4982, 7874, 7940>>, e |-> -41]
  /\ r["CLGHT"] = Dec(299792458, 2)
  /\ r["DIRTOOLS"] = "NiftyPET_tools" /\ r["CMAKE_TLS_PAR"] = ""
  /\ r["MSVC_VRSN"] = "Visual Studio 12 2013 Win64"

\* the merge step of t's call that the transition takes, if it takes one, keeps
\* every key with its value and its list
StepKeeps(t) ==
  (th[t].st = "run" /\ th'[t].st = "run" /\ th'[t].pc = th[t].pc + 1) =>
    LET C == Get(heap, th[t].cnt)
        D == Get(heap', th[t].cnt)
    IN \A k \in DOMAIN C :
         /\ k \in DOMAIN D
         /\ D[k] = C[k]
         /\ k \in ListKeys => heap'.l[D[k]] = heap.l[C[k]]

\* C17: within a builder call the record only grows: no merge step writes a key
\* that an earlier step of the call wrote, every step keeps the keys and values
\* that are there, and the baseline keys reach the returned record with their
\* baseline values.
C17_RecordGrows ==
  /\ [](\A t \in Threads :
          th[t].fn \in Builders =>
            /\ th[t].st = "run" => Rewritten(heap, th[t].cnt) = {}
            /\ (th[t].st = "run" /\ th[t].pc > 1) =>
                 BaselineKept(Get(heap, th[t].cnt))
            /\ th[t].st = "done" => BaselineKept(Rec(t)))
  /\ [][\A t \in Threads : th[t].fn \in Builders => StepKeeps(t)]_vars

\* an mMR call has taken all its merge steps, TOF included, and is about to return
\* a record with no key written twice
C17_Witness ==
  \E t \in Threads :
    /\ th[t].st = "run" /\ th[t].fn = "get_mmr_constants"
    /\ th[t].pc = Len(Steps("get_mmr_constants")) + 1
    /\ {"LOG", "NRNG", "NSN64", "SO_IMZ", "AFFINE", "SIRNG", "TOFBIND"}
         \subseteq DOMAIN Get(heap, th[t].cnt)
    /\ Rewritten(heap, th[t].cnt) = {}

=============================================================================
